---- MODULE Spec2Model ----
(***************************************************************************)
(* Model of the discord-tradebot signal pipeline: the risk manager         *)
(* (trading/risk.py), the emergency controls (trading/controls.py), the    *)
(* execution manager (trading/execution.py), the event bus                 *)
(* (trading/events.py), the Discord alert source                           *)
(* (trading/discord_monitor.py) and the wiring done by main_async          *)
(* (main.py).                                                              *)
(*                                                                         *)
(* Money is counted in mills (1/1000 of a dollar), so that round(x, 2) is  *)
(* a real operation: Round2 maps an amount in mills to the nearest whole   *)
(* cent (a multiple of 10 mills).                                          *)
(*                                                                         *)
(* asyncio is cooperative: a coroutine runs until it awaits something that *)
(* is not ready.  The only such await in the pipeline is the brokerage     *)
(* call (loop.run_in_executor).  The variable running holds the alert      *)
(* whose coroutine owns the event loop (0 when the loop is idle); the      *)
(* statements of one coroutine are separate steps, but no other coroutine  *)
(* runs between them.                                                      *)
(*                                                                         *)
(* Besides the wired pipeline the module has a specification for each      *)
(* component taken on its own: the RiskManager under direct calls, the     *)
(* EmergencyControls with their RiskManager under direct calls, the        *)
(* EventBus under subscribe and publish calls (a handler may publish), the *)
(* signal parser (trading/signal_parser.py) applied to alert texts, and    *)
(* DiscordMonitor.on_message applied to chat messages.  Termination of     *)
(* handle_alert is checked on the pipeline under weak fairness.            *)
(***************************************************************************)
EXTENDS Integers, Sequences, FiniteSets, TLC

\* ------------------------------------------------------------------ bounds
NumAlerts == 2          \* alert messages that arrive during a run
MaxOpenPositions == 2   \* largest configured max_open_positions
MaxFailures == 2        \* largest configured max_consecutive_failures
MaxCounter == 2         \* direct record_failure calls stop at this count
RecursionLimit == 3     \* depth at which the interpreter raises RecursionError
NumPublishes == 2       \* EventBus.publish calls made on a bus of its own
MaxSubscriptions == 2   \* EventBus.subscribe calls made on a bus of its own

Inf == 1000000000       \* float("inf"): larger than every configured limit
NaN == -999999999       \* float("nan"), the value of inf - inf; it is only
                        \* ever compared through Gt, Lt and Le below

Alerts == 1..NumAlerts

\* Trade signals an alert can carry (prices in mills); the symbol is a key.
Signals ==
  { [symbol |-> "AAPL", entry_price |-> 1294, stop_price |-> 1000],
    [symbol |-> "MSFT", entry_price |-> 2000, stop_price |-> 1000],
    [symbol |-> "TSLA", entry_price |-> 3000, stop_price |-> 1000],
    [symbol |-> "NVDA", entry_price |-> 1000, stop_price |-> 1000],
    [symbol |-> "AMD",  entry_price |-> 1000, stop_price |-> 1500],
    [symbol |-> "AMZN", entry_price |-> Inf,  stop_price |-> Inf] }

NoSignal == [symbol |-> "", entry_price |-> 0, stop_price |-> 0]

SignalOf(symbol) == CHOOSE s \in Signals : s.symbol = symbol

\* Signals the alert messages carry.  TSLA and AMD, which the per-trade rule
\* rejects under multiplier 100 as it rejects NVDA, and AMZN, whose prices
\* are float("inf") (the value float() gives a price token of some 310
\* digits or more), are exercised by the direct RiskManager calls only.
AlertSignals == {s \in Signals : s.symbol \in {"AAPL", "MSFT", "NVDA"}}

\* Configurations of the risk manager (mills)
ContractMultipliers == {1, 100}
PerTradeLimits == {100000}
TotalLimits == {50000, 300000}
Quantities == {1}

\* A bus of its own: the classes events are instances of, with BaseEvent the
\* base class of AlertEvent; the callables that get subscribed; how a call of
\* a handler can end (an exception of class Exception, or one outside it
\* such as asyncio.CancelledError, KeyboardInterrupt or SystemExit).
Publishes == 1..NumPublishes
EventTypes == {"BaseEvent", "AlertEvent"}
BaseOf(event_type) == IF event_type = "AlertEvent" THEN "BaseEvent" ELSE ""
Handlers == {"h1", "h2"}
Outcomes == {"returns", "Exception", "BaseException"}

\* ---- alert texts.  A text is held as the tokens the alert grammar looks
\* for; a word is the sequence of its characters.
\* A price token [0-9]+(\.[0-9]+)? : the digits before and after the point
PriceTokens ==
  { [whole |-> <<2, 5, 0>>, frac |-> <<>>],
    [whole |-> <<1>>, frac |-> <<2, 9>>],
    [whole |-> <<1>>, frac |-> <<0, 0>>] }

\* An expiry token [0-9/-]+ : its separator and the numbers between the
\* separators ("12/20", "12/20/26", "2026-12-20"; no numbers: "-" alone)
TooLarge == 2147483647   \* stands for a run of digits above the C int range
ExpiryTokens ==
  { [sep |-> "/", parts |-> <<12, 20>>],
    [sep |-> "/", parts |-> <<10, 10>>],
    [sep |-> "/", parts |-> <<11, 5>>],
    [sep |-> "/", parts |-> <<2, 29>>],
    [sep |-> "/", parts |-> <<13, 10>>],
    [sep |-> "/", parts |-> <<12, 20, 26>>],
    [sep |-> "/", parts |-> <<12, 20, 90>>],
    [sep |-> "/", parts |-> <<10, 10, 25>>],
    [sep |-> "/", parts |-> <<2, 29, 24>>],
    [sep |-> "/", parts |-> <<1, TooLarge>>],
    [sep |-> "-", parts |-> <<2028, 12, 20>>],
    [sep |-> "-", parts |-> <<2024, 2, 29>>],
    [sep |-> "-", parts |-> <<>>] }

SymbolWords == { <<"A", "A", "P", "L">>, <<"m", "s", "f", "t">>, <<>> }
TypeWords ==
  { <<"C", "A", "L", "L", "S">>, <<"c", "a", "l", "l">>,
    <<"P", "U", "T">>, <<"P", "u", "t", "s">>, <<"B", "U", "Y">> }

\* The texts given to the parser: every combination of a ticker word, an
\* option-type word and an expiry token, with strike 250, entry 1.29 and
\* stop 1.00; an empty ticker or the word BUY makes a text that does not
\* match the grammar.
Messages ==
  { [symbol |-> sy, strike |-> [whole |-> <<2, 5, 0>>, frac |-> <<>>],
     otype |-> ty, expiry |-> ex,
     entry |-> [whole |-> <<1>>, frac |-> <<2, 9>>],
     stop |-> [whole |-> <<1>>, frac |-> <<0, 0>>]] :
       sy \in SymbolWords, ty \in TypeWords, ex \in ExpiryTokens }

\* DiscordMonitor.channel_id, and the channels a message can come from
channel_id == 1
ChannelIds == {1, 2}

Todays ==
  { [year |-> 2026, month |-> 11, day |-> 5],
    [year |-> 2027, month |-> 12, day |-> 31],
    [year |-> 2028, month |-> 2, day |-> 29] }

\* A response is what an OrderEvent carries: whether it is a dict, and the
\* value stored under its "error" key (NoKey when the dict has no such key).
NoKey == "<no key>"

\* What submit_bracket_order can return: the broker's response mapping
BrokerResponses ==
  { [is_dict |-> TRUE, error |-> NoKey],
    [is_dict |-> TRUE, error |-> "rejected"] }

\* str(exc) of the exceptions submit_bracket_order can raise
ExceptionMessages == {"", "timeout"}

NoResponse == [is_dict |-> FALSE, error |-> NoKey]

VARIABLES
  publish_attr,              \* what the attribute bus.publish is bound to
  max_open_positions,        \* RiskManager configuration
  max_risk_per_trade,
  max_total_risk,
  contract_multiplier,
  quantity,                  \* ExecutionManager.quantity
  max_consecutive_failures,  \* EmergencyControls configuration
  open_positions,            \* RiskManager.open_positions
  trading_enabled,           \* EmergencyControls.trading_enabled
  consecutive_failures,      \* EmergencyControls.consecutive_failures
  pc,                        \* position of each alert's coroutine
  signal,                    \* the signal each alert carries
  decision,                  \* (accepted, reason) of should_accept per alert
  response,                  \* response carried by the alert's OrderEvent
  raised,                    \* the brokerage call of the alert raised
  broker_calls,              \* submit_bracket_order calls per alert
  handle_alert_calls,        \* handle_alert invocations per alert
  published,                 \* per alert, the events EventBus.publish delivered for it, in order
  failed_in_a_row,           \* accepted alerts in a row whose submission failed with an error text
  running,                   \* alert whose coroutine owns the event loop, 0 if idle
  last_accept,               \* signal accepted by the directly preceding should_accept call
  last_call,                 \* the latest direct call of a RiskManager or EmergencyControls
                             \* method and what it returned
  registered,                \* direct register_trade calls since the last close_all
  subscribers,               \* EventBus._subscribers: per event class, the handler list
  subscribe_log,             \* every subscribe call made so far, in order
  publishes,                 \* per EventBus.publish call, its locals and what it has done
  last_outcome,              \* how the handler call that ended last has ended
  lock,                      \* EventBus._lock.locked()
  message,                   \* the text handed to parse_discord_message, as its tokens
  today,                     \* date.today()
  parsed,                    \* what the parse_discord_message call did
  incoming,                  \* author.bot and channel.id of the chat message
  monitor                    \* what the DiscordMonitor.on_message call did

config == <<publish_attr, max_open_positions, max_risk_per_trade, max_total_risk,
            contract_multiplier, quantity, max_consecutive_failures>>
controls == <<trading_enabled, consecutive_failures>>
task == <<pc, signal, decision, response, raised, broker_calls, handle_alert_calls>>
direct == <<last_accept, last_call, registered>>
bus_state == <<subscribers, subscribe_log, publishes, last_outcome, lock>>
parser_state == <<message, today, parsed>>
monitor_state == <<incoming, monitor>>
\* what the pipeline and the controls leave alone
apart == <<direct, bus_state, parser_state, monitor_state>>
vars == <<config, open_positions, controls, task, published, failed_in_a_row,
          running, direct, bus_state, parser_state, monitor_state>>

\* ------------------------------------------------------------ risk manager
\* round(x, 2) on an amount in mills: nearest cent, ties to the even cent
Round2(x) ==
  LET q == x \div 10
      r == x % 10
  IN  IF r < 5 THEN 10 * q
      ELSE IF r > 5 THEN 10 * (q + 1)
      ELSE IF q % 2 = 0 THEN 10 * q ELSE 10 * (q + 1)

RECURSIVE SumRisk(_)
SumRisk(ps) == IF ps = <<>> THEN 0 ELSE Head(ps).risk + SumRisk(Tail(ps))

\* float arithmetic on amounts that may be inf or nan: every comparison with
\* nan is false, and inf - inf is nan
Gt(x, y) == x # NaN /\ y # NaN /\ x > y
Lt(x, y) == x # NaN /\ y # NaN /\ x < y
Le(x, y) == x # NaN /\ y # NaN /\ x <= y
Minus(x, y) ==
  IF x = NaN \/ y = NaN THEN NaN
  ELSE IF x = Inf THEN (IF y = Inf THEN NaN ELSE Inf)
  ELSE IF y = Inf THEN -Inf
  ELSE x - y

calculate_trade_risk(sig, qty) ==
  LET diff == Minus(sig.entry_price, sig.stop_price)
  IN  IF Le(diff, 0) THEN Inf
      ELSE IF diff = NaN THEN NaN      \* round(nan * quantity * multiplier, 2)
      ELSE IF diff = Inf THEN Inf
      ELSE Round2(diff * qty * contract_multiplier)

\* risk_contribution as should_accept computes it
risk_contribution(notional_risk) ==
  IF Lt(notional_risk, max_risk_per_trade) THEN notional_risk ELSE 0

should_accept_per_trade_first(sig, qty) ==
  LET notional_risk == calculate_trade_risk(sig, qty)
  IN  IF Gt(notional_risk, max_risk_per_trade)
      THEN [accepted |-> FALSE, reason |-> "Trade risk exceeds per-trade max"]
      ELSE IF Len(open_positions) >= max_open_positions
      THEN [accepted |-> FALSE, reason |-> "Max open positions reached"]
      ELSE LET total_risk == Round2(SumRisk(open_positions))
           IN  IF total_risk + risk_contribution(notional_risk) >= max_total_risk
               THEN [accepted |-> FALSE, reason |-> "Total risk after trade exceeds limit"]
               ELSE [accepted |-> TRUE, reason |-> "Accepted"]

should_accept_no_total_check(sig, qty) ==
  IF Len(open_positions) >= max_open_positions
  THEN [accepted |-> FALSE, reason |-> "Max open positions reached"]
  ELSE IF Gt(calculate_trade_risk(sig, qty), max_risk_per_trade)
  THEN [accepted |-> FALSE, reason |-> "Trade risk exceeds per-trade max"]
  ELSE [accepted |-> TRUE, reason |-> "Accepted"]

should_accept(sig, qty) ==
  IF Len(open_positions) >= max_open_positions
  THEN [accepted |-> FALSE, reason |-> "Max open positions reached"]
  ELSE LET notional_risk == calculate_trade_risk(sig, qty)
       IN  IF Gt(notional_risk, max_risk_per_trade)
           THEN [accepted |-> FALSE, reason |-> "Trade risk exceeds per-trade max"]
           ELSE LET total_risk == Round2(SumRisk(open_positions))
                IN  IF total_risk + risk_contribution(notional_risk) >= max_total_risk
                    THEN [accepted |-> FALSE, reason |-> "Total risk after trade exceeds limit"]
                    ELSE [accepted |-> TRUE, reason |-> "Accepted"]

register_trade_records_notional(sig, qty) ==
  Append(open_positions,
         [symbol |-> sig.symbol, risk |-> Round2(calculate_trade_risk(sig, qty))])

register_trade_le_limit(sig, qty) ==
  LET notional_risk == calculate_trade_risk(sig, qty)
      contribution == IF Le(notional_risk, max_risk_per_trade) THEN notional_risk ELSE 0
  IN  Append(open_positions, [symbol |-> sig.symbol, risk |-> Round2(contribution)])

\* the open-position list after register_trade(sig, qty)
register_trade(sig, qty) ==
  LET notional_risk == calculate_trade_risk(sig, qty)
      contribution == IF Lt(notional_risk, max_risk_per_trade) THEN notional_risk ELSE 0
  IN  Append(open_positions, [symbol |-> sig.symbol, risk |-> Round2(contribution)])

close_all_keeps_positions == open_positions

close_all_drops_oldest ==
  IF open_positions = <<>> THEN <<>> ELSE Tail(open_positions)

\* the open-position list after close_all()
close_all == <<>>

\* ------------------------------------------------------ emergency controls
\* Each operation gives the values of the fields it can touch after the call.
record_failure_off_by_one ==
  LET n == consecutive_failures + 1
  IN  IF n > max_consecutive_failures
      THEN [consecutive_failures |-> n, trading_enabled |-> FALSE,
            open_positions |-> close_all]
      ELSE [consecutive_failures |-> n, trading_enabled |-> trading_enabled,
            open_positions |-> open_positions]

record_failure_keeps_enabled ==
  LET n == consecutive_failures + 1
  IN  IF n >= max_consecutive_failures
      THEN [consecutive_failures |-> n, trading_enabled |-> trading_enabled,
            open_positions |-> close_all]
      ELSE [consecutive_failures |-> n, trading_enabled |-> trading_enabled,
            open_positions |-> open_positions]

record_failure ==
  LET n == consecutive_failures + 1
  IN  IF n >= max_consecutive_failures
      THEN [consecutive_failures |-> n, trading_enabled |-> FALSE,
            open_positions |-> close_all]
      ELSE [consecutive_failures |-> n, trading_enabled |-> trading_enabled,
            open_positions |-> open_positions]

reset_failures_rearms ==
  [consecutive_failures |-> 0, trading_enabled |-> TRUE,
   open_positions |-> open_positions]

reset_failures_closes_all ==
  [consecutive_failures |-> 0, trading_enabled |-> trading_enabled,
   open_positions |-> close_all]

reset_failures ==
  [consecutive_failures |-> 0, trading_enabled |-> trading_enabled,
   open_positions |-> open_positions]

is_enabled_always == TRUE

is_enabled == trading_enabled

Becomes(ctl) ==
  /\ consecutive_failures' = ctl.consecutive_failures
  /\ trading_enabled' = ctl.trading_enabled
  /\ open_positions' = ctl.open_positions

\* ------------------------------------------------- event bus and main.py
\* handlers registered per event type, in registration order
Subscribers ==
  [AlertEvent |-> <<"handle_alert">>,
   RiskEvent  |-> <<"on_risk">>,
   OrderEvent |-> <<"on_order">>]

\* Outcome of calling the attribute bus.publish with an event of the given
\* type at the given call depth: "EventBus.publish" (the bus delivers the
\* event), "dropped" (the gate returned without publishing) or
\* "RecursionError".
RECURSIVE bus_publish(_, _), wrap_publish(_, _)
bus_publish(event_type, depth) ==
  IF depth > RecursionLimit THEN "RecursionError"
  ELSE IF publish_attr = "wrap_publish" THEN wrap_publish(event_type, depth)
  ELSE "EventBus.publish"

wrap_publish(event_type, depth) ==
  IF event_type = "AlertEvent" /\ ~is_enabled
  THEN "dropped"
  ELSE bus_publish(event_type, depth + 1)

\* bool(response.get("error")) for a dict response
Truthy(v) == v # NoKey /\ v # ""

\* main.py on_risk: the controls after the handler ran on a RiskEvent
on_risk(accepted) ==
  IF accepted THEN reset_failures
  ELSE [consecutive_failures |-> consecutive_failures,
        trading_enabled |-> trading_enabled, open_positions |-> open_positions]

\* main.py on_order: the controls after the handler ran on an OrderEvent
on_order(resp) ==
  IF resp.is_dict /\ Truthy(resp.error) THEN record_failure ELSE reset_failures

RiskEvent(a) ==
  [type |-> "RiskEvent", accepted |-> decision[a].accepted, response |-> NoResponse]

OrderEvent(a) ==
  [type |-> "OrderEvent", accepted |-> TRUE, response |-> response[a]]

\* ------------------------------------------------------ the signal parser
\* str.upper() and str.lower() on the letters the texts use
UpperChar(c) ==
  CASE c = "a" -> "A" [] c = "b" -> "B" [] c = "c" -> "C" [] c = "f" -> "F"
    [] c = "l" -> "L" [] c = "m" -> "M" [] c = "p" -> "P" [] c = "s" -> "S"
    [] c = "t" -> "T" [] c = "u" -> "U" [] c = "y" -> "Y" [] OTHER -> c

LowerChar(c) ==
  CASE c = "A" -> "a" [] c = "B" -> "b" [] c = "C" -> "c" [] c = "F" -> "f"
    [] c = "L" -> "l" [] c = "M" -> "m" [] c = "P" -> "p" [] c = "S" -> "s"
    [] c = "T" -> "t" [] c = "U" -> "u" [] c = "Y" -> "y" [] OTHER -> c

Upper(word) == [i \in DOMAIN word |-> UpperChar(word[i])]
Lower(word) == [i \in DOMAIN word |-> LowerChar(word[i])]

\* float(token) of a price token, in mills
RECURSIVE DigitsValue(_)
DigitsValue(ds) ==
  IF ds = <<>> THEN 0 ELSE 10 * DigitsValue(SubSeq(ds, 1, Len(ds) - 1)) + ds[Len(ds)]

Float(tok) ==
  LET pad == tok.frac \o [i \in 1..(3 - Len(tok.frac)) |-> 0]
  IN  1000 * DigitsValue(tok.whole) + DigitsValue(pad)

\* the pattern of parse_discord_message, applied case-insensitively
Matches(msg) ==
  /\ msg.symbol # <<>>
  /\ Upper(msg.otype) \in { <<"C", "A", "L", "L">>, <<"C", "A", "L", "L", "S">>,
                            <<"P", "U", "T">>, <<"P", "U", "T", "S">> }

\* datetime.date
IsLeap(y) == y % 4 = 0 /\ (y % 100 # 0 \/ y % 400 = 0)

DaysInMonth(y, m) ==
  IF m = 2 THEN (IF IsLeap(y) THEN 29 ELSE 28)
  ELSE IF m \in {4, 6, 9, 11} THEN 30 ELSE 31

\* date(y, m, d): the date, or the exception the constructor raises
date(y, m, d) ==
  IF y >= TooLarge \/ m >= TooLarge \/ d >= TooLarge
  THEN [exc |-> "OverflowError", year |-> 0, month |-> 0, day |-> 0]
  ELSE IF y \in 1..9999 /\ m \in 1..12 /\ d \in 1..DaysInMonth(y, m)
  THEN [exc |-> "", year |-> y, month |-> m, day |-> d]
  ELSE [exc |-> "ValueError", year |-> 0, month |-> 0, day |-> 0]

\* d1 <= d2 on dates
DateLe(d1, d2) ==
  \/ d1.year < d2.year
  \/ d1.year = d2.year /\ d1.month < d2.month
  \/ d1.year = d2.year /\ d1.month = d2.month /\ d1.day <= d2.day

\* dateutil's reading of a year written with one or two digits: the year of
\* the current century, moved a century back when that is 50 years or more
\* ahead of the current year
convertyear(y, now) ==
  IF y >= 100 THEN y
  ELSE LET c == y + 100 * (now.year \div 100)
       IN  IF c >= now.year + 50 THEN c - 100
           ELSE IF c < now.year - 50 THEN c + 100 ELSE c

\* dateutil.parser.parse(expiry_str, fuzzy=False).date() on an expiry token
\* of two or three numbers, or of none: a first number above 31 is the year;
\* otherwise of three numbers the first is the month unless it is above 12,
\* when it is the day; of two numbers the first is the month, the second
\* the day, and the year is the current one.
date_parser_parse(tok, now) ==
  LET ps == tok.parts
  IN  IF \E i \in DOMAIN ps : ps[i] >= TooLarge
      THEN [exc |-> "OverflowError", year |-> 0, month |-> 0, day |-> 0]
      ELSE IF Len(ps) = 3
      THEN IF ps[1] > 31 THEN date(convertyear(ps[1], now), ps[2], ps[3])
           ELSE IF ps[1] > 12 THEN date(convertyear(ps[3], now), ps[2], ps[1])
           ELSE date(convertyear(ps[3], now), ps[1], ps[2])
      ELSE IF Len(ps) = 2
      THEN IF ps[1] > 31 THEN date(convertyear(ps[1], now), ps[2], now.day)
           ELSE IF ps[2] > 31 THEN date(convertyear(ps[2], now), ps[1], now.day)
           ELSE date(now.year, ps[1], ps[2])
      ELSE [exc |-> "ValueError", year |-> 0, month |-> 0, day |-> 0]

\* _normalize_expiration lines 98-109: the MM/DD and MM/DD/YY reading, taken
\* when dateutil raised ValueError or OverflowError
parse_parts(tok, now) ==
  LET ps == tok.parts
  IN  IF tok.sep # "/" \/ Len(ps) \notin {2, 3}
      THEN [exc |-> "ValueError", year |-> 0, month |-> 0, day |-> 0]
      ELSE LET year == IF Len(ps) = 3
                       THEN (IF ps[3] < 100 THEN ps[3] + 2000 ELSE ps[3])
                       ELSE now.year
           IN  date(year, ps[1], ps[2])

\* _normalize_expiration lines 95-109: the date before any rolling
unrolled(tok, now) ==
  LET dt == date_parser_parse(tok, now)
  IN  IF dt.exc \in {"ValueError", "OverflowError"} THEN parse_parts(tok, now) ELSE dt

\* _normalize_expiration lines 111-114
roll(dt, now) ==
  IF DateLe(dt, now) THEN date(dt.year + 1, dt.month, dt.day) ELSE dt

_normalize_expiration(tok, now) ==
  LET dt == unrolled(tok, now)
  IN  IF dt.exc # "" THEN dt ELSE roll(dt, now)

_upper_symbol(v) == Upper(v)

\* the validator of option_type: v.strip().lower(), then its first letter
_normalize_option_type(v) ==
  LET w == Lower(v)
  IN  IF w # <<>> /\ w[1] = "c" THEN [exc |-> "", value |-> "Call"]
      ELSE IF w # <<>> /\ w[1] = "p" THEN [exc |-> "", value |-> "Put"]
      ELSE [exc |-> "ValueError", value |-> ""]

_future_date_passes(v, now) == ""

\* the validator of expiration_date: the exception it raises, "" if none
_future_date(v, now) == IF DateLe(v, now) THEN "ValueError" ELSE ""

NoSignalParsed ==
  [symbol |-> <<>>, strike |-> 0, option_type |-> "",
   expiration_date |-> [exc |-> "", year |-> 0, month |-> 0, day |-> 0],
   entry_price |-> 0, stop_price |-> 0]

NotParsed == [outcome |-> "not called", exc |-> "", signal |-> NoSignalParsed]

Raises(exc) == [outcome |-> "raised", exc |-> exc, signal |-> NoSignalParsed]

\* parse_discord_message(message) called on the day now: the signal it
\* returns or the exception it raises.  A ValueError of
\* _normalize_expiration and any exception of the TradeSignal constructor
\* are turned into SignalParserError; nothing else is caught.
parse_discord_message(msg, now) ==
  IF ~Matches(msg) THEN Raises("SignalParserError")
  ELSE LET expiration == _normalize_expiration(msg.expiry, now)
       IN  IF expiration.exc = "ValueError" THEN Raises("SignalParserError")
           ELSE IF expiration.exc # "" THEN Raises(expiration.exc)
           ELSE LET option_type == _normalize_option_type(msg.otype)
                IN  IF option_type.exc # "" \/ _future_date(expiration, now) # ""
                    THEN Raises("SignalParserError")
                    ELSE [outcome |-> "returned", exc |-> "",
                          signal |-> [symbol |-> _upper_symbol(msg.symbol),
                                      strike |-> Float(msg.strike),
                                      option_type |-> option_type.value,
                                      expiration_date |-> expiration,
                                      entry_price |-> Float(msg.entry),
                                      stop_price |-> Float(msg.stop)]]

\* no text is being parsed
ParserInit ==
  /\ message = CHOOSE msg \in Messages : Matches(msg)
  /\ today = CHOOSE now \in Todays : TRUE
  /\ parsed = NotParsed

\* an on_message call that has not been made yet
NotCalled == [outcome |-> "not called", exc |-> "", alert_events |-> 0]

MonitorInit ==
  /\ incoming = [bot |-> FALSE, channel_id |-> channel_id]
  /\ monitor = NotCalled

\* ------------------------------------------------------------------- Init
\* a publish call that has not been made yet
NoPublish ==
  [state |-> "idle", event_type |-> "", handlers |-> <<>>, next |-> 0,
   invoked |-> <<>>, finished |-> 0, subscribed |-> <<>>, parent |-> 0]

\* EventBus.__init__: no subscribers
BusInit ==
  /\ subscribers = [t \in EventTypes |-> <<>>]
  /\ subscribe_log = <<>>
  /\ publishes = [p \in Publishes |-> NoPublish]
  /\ last_outcome = ""
  /\ lock = FALSE

NoCall ==
  [op |-> "none", signal |-> NoSignal, accepted |-> FALSE, reason |-> "",
   returned |-> FALSE]

ConfigInit ==
  /\ max_open_positions \in 1..MaxOpenPositions
  /\ max_risk_per_trade \in PerTradeLimits
  /\ max_total_risk \in TotalLimits
  /\ quantity \in Quantities
  /\ max_consecutive_failures \in 1..MaxFailures

StateInit ==
  /\ open_positions = <<>>
  /\ trading_enabled = TRUE
  /\ consecutive_failures = 0
  /\ pc = [a \in Alerts |-> "new"]
  /\ signal = [a \in Alerts |-> NoSignal]
  /\ decision = [a \in Alerts |-> [accepted |-> FALSE, reason |-> ""]]
  /\ response = [a \in Alerts |-> NoResponse]
  /\ raised = [a \in Alerts |-> FALSE]
  /\ broker_calls = [a \in Alerts |-> 0]
  /\ handle_alert_calls = [a \in Alerts |-> 0]
  /\ published = [a \in Alerts |-> <<>>]
  /\ failed_in_a_row = 0
  /\ running = 0
  /\ last_accept = NoSignal
  /\ last_call = NoCall
  /\ registered = 0
  /\ BusInit
  /\ MonitorInit

\* The components as main_async builds them; the bus either still has its
\* own publish method or has the kill-switch wrapper assigned over it.  The
\* pipeline runs with the default contract multiplier (risk.py line 33); the
\* RiskManager specification below also covers multiplier 1, where the
\* rounding to cents acts.
Init ==
  /\ publish_attr \in {"EventBus.publish", "wrap_publish"}
  /\ contract_multiplier = 100
  /\ ConfigInit
  /\ StateInit
  /\ ParserInit

\* ------------------------------------------------- alert source and gate
\* DiscordMonitor.on_message for a message that parses to sig: it calls
\* bus.publish(AlertEvent).  Delivery enters handle_alert, the one
\* AlertEvent subscriber.
on_message(a, sig) ==
  /\ running = 0
  /\ pc[a] = "new"
  /\ \A b \in Alerts : b < a => pc[b] # "new"   \* alerts are numbered in arrival order
  /\ signal' = [signal EXCEPT ![a] = sig]
  /\ LET outcome == bus_publish("AlertEvent", 1)
     IN  IF outcome = "EventBus.publish"
         THEN /\ pc' = [pc EXCEPT ![a] = "should_accept"]
              /\ handle_alert_calls' =
                   [handle_alert_calls EXCEPT ![a] = @ + Len(Subscribers.AlertEvent)]
              /\ running' = a
         ELSE /\ pc' = [pc EXCEPT ![a] =
                          IF outcome = "dropped" THEN "dropped" ELSE "raised"]
              /\ UNCHANGED <<handle_alert_calls, running>>
  /\ UNCHANGED <<config, open_positions, controls, decision, response, raised,
                 broker_calls, published, failed_in_a_row, apart>>

\* ---------------------------------------------------- execution manager
\* handle_alert line 36: the risk check
handle_alert_should_accept(a) ==
  /\ running = a
  /\ pc[a] = "should_accept"
  /\ decision' = [decision EXCEPT ![a] = should_accept(signal[a], quantity)]
  /\ pc' = [pc EXCEPT ![a] = "publish_risk"]
  /\ UNCHANGED <<config, open_positions, controls, signal, response, raised,
                 broker_calls, handle_alert_calls, published, failed_in_a_row, running,
                 apart>>

\* handle_alert lines 38-40: await self.bus.publish(RiskEvent(...)); the bus
\* then calls on_risk
handle_alert_publish_risk(a) ==
  /\ running = a
  /\ pc[a] = "publish_risk"
  /\ IF bus_publish("RiskEvent", 1) = "EventBus.publish"
     THEN /\ published' = [published EXCEPT ![a] = Append(@, RiskEvent(a))]
          /\ failed_in_a_row' = IF decision[a].accepted THEN failed_in_a_row ELSE 0
          /\ pc' = [pc EXCEPT ![a] = "on_risk"]
          /\ UNCHANGED running
     ELSE /\ pc' = [pc EXCEPT ![a] = "raised"]
          /\ running' = 0
          /\ UNCHANGED <<published, failed_in_a_row>>
  /\ UNCHANGED <<config, open_positions, controls, signal, decision, response,
                 raised, broker_calls, handle_alert_calls, apart>>

\* the RiskEvent subscriber runs inside the publish call
run_on_risk(a) ==
  /\ running = a
  /\ pc[a] = "on_risk"
  /\ Becomes(on_risk(decision[a].accepted))
  /\ pc' = [pc EXCEPT ![a] = "check_accepted"]
  /\ UNCHANGED <<config, signal, decision, response, raised, broker_calls,
                 handle_alert_calls, published, failed_in_a_row, running, apart>>

after_risk_event_always_submit(accepted) == "submit"

\* handle_alert lines 41-42: if not accepted: return
after_risk_event(accepted) == IF ~accepted THEN "done" ELSE "submit"

handle_alert_check_accepted(a) ==
  /\ running = a
  /\ pc[a] = "check_accepted"
  /\ pc' = [pc EXCEPT ![a] = after_risk_event(decision[a].accepted)]
  /\ running' = IF pc'[a] = "done" THEN 0 ELSE a
  /\ UNCHANGED <<config, open_positions, controls, signal, decision, response,
                 raised, broker_calls, handle_alert_calls, published, failed_in_a_row,
                 apart>>

\* handle_alert lines 44-48: the brokerage call is handed to the executor
\* and the coroutine is suspended; the event loop is free for other alerts
handle_alert_submit(a) ==
  /\ running = a
  /\ pc[a] = "submit"
  /\ broker_calls' = [broker_calls EXCEPT ![a] = @ + 1]
  /\ pc' = [pc EXCEPT ![a] = "in_executor"]
  /\ running' = 0
  /\ UNCHANGED <<config, open_positions, controls, signal, decision, response,
                 raised, handle_alert_calls, published, failed_in_a_row, apart>>

after_try_publishes == "publish_order"

\* handle_alert lines 55-56: the statement after the try registers the trade
after_try == "register"

\* submit_bracket_order returned resp; the coroutine resumes at line 56
broker_returns(a, resp) ==
  /\ running = 0
  /\ pc[a] = "in_executor"
  /\ response' = [response EXCEPT ![a] = resp]
  /\ pc' = [pc EXCEPT ![a] = after_try]
  /\ running' = a
  /\ UNCHANGED <<config, open_positions, controls, signal, decision, raised,
                 broker_calls, handle_alert_calls, published, failed_in_a_row, apart>>

except_clause_registers == "register"

except_clause_retries == "submit"

\* handle_alert lines 49-54: the except clause publishes and returns
except_clause == "publish_error"

\* submit_bracket_order raised; the coroutine resumes in the except clause
\* (lines 49-51) with response {"error": str(exc)}
broker_raises(a, msg) ==
  /\ running = 0
  /\ pc[a] = "in_executor"
  /\ response' = [response EXCEPT ![a] = [is_dict |-> TRUE, error |-> msg]]
  /\ raised' = [raised EXCEPT ![a] = TRUE]
  /\ pc' = [pc EXCEPT ![a] = except_clause]
  /\ running' = a
  /\ UNCHANGED <<config, open_positions, controls, signal, decision,
                 broker_calls, handle_alert_calls, published, failed_in_a_row, apart>>

\* handle_alert line 56: self.risk.register_trade(signal, self.quantity)
handle_alert_register(a) ==
  /\ running = a
  /\ pc[a] = "register"
  /\ open_positions' = register_trade(signal[a], quantity)
  /\ pc' = [pc EXCEPT ![a] = "publish_order"]
  /\ UNCHANGED <<config, controls, signal, decision, response, raised,
                 broker_calls, handle_alert_calls, published, failed_in_a_row, running,
                 apart>>

\* handle_alert lines 51-53 (error) and 57-59 (success): publish the OrderEvent
handle_alert_publish_order(a) ==
  /\ running = a
  /\ pc[a] \in {"publish_order", "publish_error"}
  /\ IF bus_publish("OrderEvent", 1) = "EventBus.publish"
     THEN /\ published' = [published EXCEPT ![a] = Append(@, OrderEvent(a))]
          /\ failed_in_a_row' = IF raised[a] /\ Truthy(response[a].error)
                                 THEN failed_in_a_row + 1 ELSE 0
          /\ pc' = [pc EXCEPT ![a] = "on_order"]
          /\ UNCHANGED running
     ELSE /\ pc' = [pc EXCEPT ![a] = "raised"]
          /\ running' = 0
          /\ UNCHANGED <<published, failed_in_a_row>>
  /\ UNCHANGED <<config, open_positions, controls, signal, decision, response,
                 raised, broker_calls, handle_alert_calls, apart>>

\* the OrderEvent subscriber runs inside the publish call; handle_alert
\* then returns
run_on_order(a) ==
  /\ running = a
  /\ pc[a] = "on_order"
  /\ Becomes(on_order(response[a]))
  /\ pc' = [pc EXCEPT ![a] = "done"]
  /\ running' = 0
  /\ UNCHANGED <<config, signal, decision, response, raised, broker_calls,
                 handle_alert_calls, published, failed_in_a_row, apart>>

\* ------------------------------------- direct calls of EmergencyControls
call_record_failure ==
  /\ running = 0
  /\ consecutive_failures < MaxCounter
  /\ Becomes(record_failure)
  /\ UNCHANGED <<config, task, published, failed_in_a_row, running, apart>>

call_reset_failures ==
  /\ running = 0
  /\ Becomes(reset_failures)
  /\ UNCHANGED <<config, task, published, failed_in_a_row, running, apart>>

\* ------------------------------------------------------- specifications
Pipeline ==
  \E a \in Alerts :
     \/ \E sig \in AlertSignals : on_message(a, sig)
     \/ handle_alert_should_accept(a)
     \/ handle_alert_publish_risk(a)
     \/ run_on_risk(a)
     \/ handle_alert_check_accepted(a)
     \/ handle_alert_submit(a)
     \/ \E resp \in BrokerResponses : broker_returns(a, resp)
     \/ \E msg \in ExceptionMessages : broker_raises(a, msg)
     \/ handle_alert_register(a)
     \/ handle_alert_publish_order(a)
     \/ run_on_order(a)

Next ==
  \/ Pipeline
  \/ call_record_failure
  \/ call_reset_failures

\* the pipeline together with direct calls of the controls' operations
Spec == Init /\ [][Next]_vars

\* the pipeline alone: the controls are driven only by on_risk and on_order
SpecPipeline == Init /\ [][Pipeline]_vars

\* a step of alert a's handle_alert coroutine after it was entered, the
\* return or raise of its brokerage call included
handle_alert_step(a) ==
  \/ handle_alert_should_accept(a)
  \/ handle_alert_publish_risk(a)
  \/ run_on_risk(a)
  \/ handle_alert_check_accepted(a)
  \/ handle_alert_submit(a)
  \/ \E resp \in BrokerResponses : broker_returns(a, resp)
  \/ \E msg \in ExceptionMessages : broker_raises(a, msg)
  \/ handle_alert_register(a)
  \/ handle_alert_publish_order(a)
  \/ run_on_order(a)

\* The bus delivers to handle_alert, on_risk and on_order.  The limits are
\* set so that a run has accepted alerts and alerts rejected by the
\* per-trade rule and by the total-risk rule; which limit rejects does not
\* change the steps handle_alert takes.
InitFair ==
  /\ publish_attr = "EventBus.publish"
  /\ contract_multiplier = 100
  /\ max_open_positions = MaxOpenPositions
  /\ max_risk_per_trade = 100000
  /\ max_total_risk = 50000
  /\ quantity = 1
  /\ max_consecutive_failures \in 1..MaxFailures
  /\ StateInit
  /\ ParserInit

\* the pipeline where the event loop goes on running every coroutine that
\* can run, every brokerage call returns or raises, and every subscriber
\* returns
SpecPipelineFair ==
  InitFair /\ [][Pipeline]_vars /\ \A a \in Alerts : WF_vars(handle_alert_step(a))

\* --------------------------------------- direct calls of the RiskManager
\* register_trade is called only directly after should_accept accepted the
\* same signal and quantity
risk_should_accept(sig) ==
  /\ last_accept' = IF should_accept(sig, quantity).accepted THEN sig ELSE NoSignal
  /\ last_call' = [op |-> "should_accept", signal |-> sig,
                   accepted |-> should_accept(sig, quantity).accepted,
                   reason |-> should_accept(sig, quantity).reason,
                   returned |-> FALSE]
  /\ UNCHANGED <<config, open_positions, controls, task, published,
                 failed_in_a_row, running, registered, bus_state, parser_state, monitor_state>>

risk_register_trade ==
  /\ last_accept # NoSignal
  /\ open_positions' = register_trade(last_accept, quantity)
  /\ last_accept' = NoSignal
  /\ last_call' = [NoCall EXCEPT !.op = "register_trade", !.signal = last_accept]
  /\ registered' = registered + 1
  /\ UNCHANGED <<config, controls, task, published, failed_in_a_row, running,
                 bus_state, parser_state, monitor_state>>

risk_close_all ==
  /\ open_positions' = close_all
  /\ last_accept' = NoSignal
  /\ last_call' = [NoCall EXCEPT !.op = "close_all"]
  /\ registered' = 0
  /\ UNCHANGED <<config, controls, task, published, failed_in_a_row, running,
                 bus_state, parser_state, monitor_state>>

InitRisk ==
  /\ publish_attr = "EventBus.publish"
  /\ contract_multiplier \in ContractMultipliers
  /\ ConfigInit
  /\ StateInit
  /\ ParserInit

NextRisk ==
  \/ \E sig \in Signals : risk_should_accept(sig)
  \/ risk_register_trade
  \/ risk_close_all

\* a RiskManager on its own, called the way handle_alert calls it
SpecRisk == InitRisk /\ [][NextRisk]_vars

\* ------------------- direct calls of EmergencyControls and its RiskManager
controls_record_failure ==
  /\ consecutive_failures < MaxCounter
  /\ Becomes(record_failure)
  /\ last_accept' = NoSignal
  /\ last_call' = [NoCall EXCEPT !.op = "record_failure"]
  /\ registered' = IF consecutive_failures + 1 >= max_consecutive_failures
                   THEN 0 ELSE registered
  /\ UNCHANGED <<config, task, published, failed_in_a_row, running, bus_state,
                 parser_state, monitor_state>>

controls_reset_failures ==
  /\ Becomes(reset_failures)
  /\ last_accept' = NoSignal
  /\ last_call' = [NoCall EXCEPT !.op = "reset_failures"]
  /\ UNCHANGED <<config, task, published, failed_in_a_row, running, registered,
                 bus_state, parser_state, monitor_state>>

controls_is_enabled ==
  /\ last_accept' = NoSignal
  /\ last_call' = [NoCall EXCEPT !.op = "is_enabled", !.returned = is_enabled]
  /\ UNCHANGED <<config, open_positions, controls, task, published,
                 failed_in_a_row, running, registered, bus_state, parser_state,
                 monitor_state>>

InitControls ==
  /\ publish_attr = "EventBus.publish"
  /\ contract_multiplier = 100
  /\ ConfigInit
  /\ StateInit
  /\ ParserInit

NextControls ==
  \/ \E sig \in AlertSignals : risk_should_accept(sig)
  \/ risk_register_trade
  \/ risk_close_all
  \/ controls_record_failure
  \/ controls_reset_failures
  \/ controls_is_enabled

\* EmergencyControls and the RiskManager it holds, under direct calls
SpecControls == InitControls /\ [][NextControls]_vars

\* ----------------------------------------------------- the EventBus class
\* the handlers subscribed for exactly the class event_cls by the first n
\* subscribe calls, in the order of those calls
SubscribedBefore(n, event_cls) ==
  LET calls == SelectSeq(SubSeq(subscribe_log, 1, n),
                         LAMBDA c : c.event_cls = event_cls)
  IN  [i \in DOMAIN calls |-> calls[i].handler]

\* subscribe(event_cls, handler): setdefault and append; duplicates are kept
subscribe(event_cls, handler) ==
  /\ Len(subscribe_log) < MaxSubscriptions
  /\ subscribers' = [subscribers EXCEPT ![event_cls] = Append(@, handler)]
  /\ subscribe_log' = Append(subscribe_log, [event_cls |-> event_cls, handler |-> handler])
  /\ UNCHANGED <<config, open_positions, controls, task, published,
                 failed_in_a_row, running, direct, publishes, last_outcome,
                 lock, parser_state, monitor_state>>

Lookup_isinstance(event_type) ==
  IF BaseOf(event_type) = "" THEN subscribers[event_type]
  ELSE subscribers[event_type] \o subscribers[BaseOf(event_type)]

\* publish line 137: self._subscribers.get(type(event), [])
Lookup(event_type) == subscribers[event_type]

iterated_live(pub) == subscribers[pub.event_type]

\* publish lines 137-138: the loop runs over the copy made at the start
iterated(pub) == pub.handlers

after_handler_reraises(outcome) ==
  IF outcome = "returns" THEN "continue" ELSE "propagate"

\* publish lines 139-146: what the loop does when a handler call has ended;
\* the except clause catches Exception and prints, anything else propagates
after_handler(outcome) ==
  IF outcome \in {"returns", "Exception"} THEN "continue" ELSE "propagate"

\* the body of the for loop entering handler number k, or the return when
\* the handlers are exhausted
Enter(pub, k) ==
  IF k <= Len(iterated(pub))
  THEN [pub EXCEPT !.state = "in_handler", !.next = k,
                   !.invoked = Append(@, iterated(pub)[k])]
  ELSE [pub EXCEPT !.state = "returned", !.next = k]

held_in_loop_inside_with == TRUE

\* publish lines 136-138: the for loop stands after the async with block, so
\* the lock is not held while the handlers run
held_in_loop == FALSE

\* publish call q is inside a handler that is itself awaiting a publish
Awaiting(q) ==
  \E p \in Publishes : publishes[p].parent = q /\ publishes[p].state = "in_handler"

\* _lock.locked() once publish call pub has taken the step that made it pub
LockAfter(pub) == held_in_loop /\ pub.state = "in_handler"

\* publish(event) is called, from outside every handler (parent 0) or by the
\* handler that publish call parent is awaiting.  The call takes the lock,
\* which it can do at once only while the lock is free; the handler list is
\* copied (nothing awaits inside the async with block) and the first
\* handler is entered
publish_start(p, event_type, parent) ==
  /\ publishes[p].state = "idle"
  /\ \A q \in Publishes : q < p => publishes[q].state # "idle"
  /\ parent # 0 => (publishes[parent].state = "in_handler" /\ ~Awaiting(parent))
  /\ ~lock
  /\ LET pub == Enter([NoPublish EXCEPT !.event_type = event_type,
                                        !.handlers = Lookup(event_type),
                                        !.subscribed =
                                           SubscribedBefore(Len(subscribe_log), event_type),
                                        !.parent = parent], 1)
     IN  /\ publishes' = [publishes EXCEPT ![p] = pub]
         /\ lock' = LockAfter(pub)
  /\ UNCHANGED <<config, open_positions, controls, task, published,
                 failed_in_a_row, running, direct, subscribers, subscribe_log,
                 last_outcome, parser_state, monitor_state>>

\* the handler publish p is awaiting ends (a handler that made a publish call
\* has got that call's result first); the loop goes on to the next handler,
\* returns, or lets the exception propagate to the caller
handler_ends(p, outcome) ==
  /\ publishes[p].state = "in_handler"
  /\ ~Awaiting(p)
  /\ last_outcome' = outcome
  /\ LET pub == [publishes[p] EXCEPT !.finished = @ + 1]
         after == IF after_handler(outcome) = "continue"
                  THEN Enter(pub, pub.next + 1)
                  ELSE [pub EXCEPT !.state = "raised"]
     IN  /\ publishes' = [publishes EXCEPT ![p] = after]
         /\ lock' = LockAfter(after)
  /\ UNCHANGED <<config, open_positions, controls, task, published,
                 failed_in_a_row, running, direct, subscribers, subscribe_log,
                 parser_state, monitor_state>>

\* the bus is exercised on its own; the other components keep their default
\* configuration and are not called
InitBus ==
  /\ publish_attr = "EventBus.publish"
  /\ contract_multiplier = 100
  /\ max_open_positions = MaxOpenPositions
  /\ max_risk_per_trade = 100000
  /\ max_total_risk = 300000
  /\ quantity = 1
  /\ max_consecutive_failures = MaxFailures
  /\ StateInit
  /\ ParserInit

NextBus ==
  \/ \E event_cls \in EventTypes, handler \in Handlers : subscribe(event_cls, handler)
  \/ \E p \in Publishes, event_type \in EventTypes, parent \in {0} \cup Publishes :
        publish_start(p, event_type, parent)
  \/ \E p \in Publishes, outcome \in Outcomes : handler_ends(p, outcome)

\* an EventBus on its own: subscribe and publish calls in any interleaving
\* the event loop allows (a publish is suspended while a handler runs)
SpecBus == InitBus /\ [][NextBus]_vars

\* ------------------------------------------- calls of the signal parser
call_parse_discord_message ==
  /\ parsed.outcome = "not called"
  /\ parsed' = parse_discord_message(message, today)
  /\ UNCHANGED <<config, open_positions, controls, task, published,
                 failed_in_a_row, running, direct, bus_state, message, today,
                 monitor_state>>

\* a text arrives on some day
InitParser ==
  /\ publish_attr = "EventBus.publish"
  /\ contract_multiplier = 100
  /\ max_open_positions = MaxOpenPositions
  /\ max_risk_per_trade = 100000
  /\ max_total_risk = 300000
  /\ quantity = 1
  /\ max_consecutive_failures = MaxFailures
  /\ StateInit
  /\ message \in Messages
  /\ today \in Todays
  /\ parsed = NotParsed

NextParser == call_parse_discord_message

\* parse_discord_message on its own, over the texts and days above
SpecParser == InitParser /\ [][NextParser]_vars

\* ------------------------------------------- DiscordMonitor.on_message
\* on_message lines 37-51 for a message with the given author.bot,
\* channel.id and content, in the fields of monitor: how the call ended and
\* how many AlertEvents the bus took.  The except clause at line 45 catches
\* SignalParserError only.
on_message_call(bot, channel, content, now) ==
  IF bot THEN [NotCalled EXCEPT !.outcome = "returned"]
  ELSE IF channel # channel_id THEN [NotCalled EXCEPT !.outcome = "returned"]
  ELSE LET result == parse_discord_message(content, now)
       IN  IF result.outcome = "raised"
           THEN IF result.exc = "SignalParserError"
                THEN [NotCalled EXCEPT !.outcome = "returned"]
                ELSE [NotCalled EXCEPT !.outcome = "raised", !.exc = result.exc]
           ELSE LET outcome == bus_publish("AlertEvent", 1)
                IN  IF outcome = "EventBus.publish"
                    THEN [NotCalled EXCEPT !.outcome = "returned", !.alert_events = 1]
                    ELSE IF outcome = "dropped"
                    THEN [NotCalled EXCEPT !.outcome = "returned"]
                    ELSE [NotCalled EXCEPT !.outcome = "raised", !.exc = outcome]

\* whether on_message gets as far as line 44
calls_parser(bot, channel) == ~bot /\ channel = channel_id

call_on_message ==
  /\ monitor.outcome = "not called"
  /\ monitor' = on_message_call(incoming.bot, incoming.channel_id, message, today)
  /\ parsed' = IF calls_parser(incoming.bot, incoming.channel_id)
               THEN parse_discord_message(message, today) ELSE parsed
  /\ UNCHANGED <<config, open_positions, controls, task, published,
                 failed_in_a_row, running, direct, bus_state, message, today,
                 incoming>>

\* a chat message arrives on some day
InitMonitor ==
  /\ publish_attr \in {"EventBus.publish", "wrap_publish"}
  /\ contract_multiplier = 100
  /\ max_open_positions = MaxOpenPositions
  /\ max_risk_per_trade = 100000
  /\ max_total_risk = 300000
  /\ quantity = 1
  /\ max_consecutive_failures = MaxFailures
  /\ open_positions = <<>>
  /\ trading_enabled \in BOOLEAN
  /\ consecutive_failures = 0
  /\ pc = [a \in Alerts |-> "new"]
  /\ signal = [a \in Alerts |-> NoSignal]
  /\ decision = [a \in Alerts |-> [accepted |-> FALSE, reason |-> ""]]
  /\ response = [a \in Alerts |-> NoResponse]
  /\ raised = [a \in Alerts |-> FALSE]
  /\ broker_calls = [a \in Alerts |-> 0]
  /\ handle_alert_calls = [a \in Alerts |-> 0]
  /\ published = [a \in Alerts |-> <<>>]
  /\ failed_in_a_row = 0
  /\ running = 0
  /\ last_accept = NoSignal
  /\ last_call = NoCall
  /\ registered = 0
  /\ BusInit
  /\ message \in Messages
  /\ today \in Todays
  /\ parsed = NotParsed
  /\ incoming \in [bot : BOOLEAN, channel_id : ChannelIds]
  /\ monitor = NotCalled

NextMonitor == call_on_message

\* DiscordMonitor.on_message on its own, over the texts and days above
SpecMonitor == InitMonitor /\ [][NextMonitor]_vars

\* ------------------------------------------------------------- properties
\* the handlers that were subscribed for the class of publish call pub's
\* event when the call was made
Expected(pub) == pub.subscribed

CountType(events, type) ==
  Cardinality({i \in DOMAIN events : events[i].type = type})

NotionalOf(p) == calculate_trade_risk(SignalOf(p.symbol), quantity)

Positions == {open_positions[i] : i \in DOMAIN open_positions}

\* C1: with the kill-switch wrapper assigned over bus.publish, an AlertEvent
\* published while trading is enabled (so not dropped by the gate) reaches
\* handle_alert exactly once and the publish call returns without raising.
C1_EnabledAlertDelivered ==
  \A a \in Alerts :
     (publish_attr = "wrap_publish" /\ pc[a] \notin {"new", "dropped"})
        => (handle_alert_calls[a] = 1 /\ pc[a] # "raised")

\* C2: an AlertEvent published through the gate while is_enabled() is false
\* is dropped: the publish returns, should_accept is never called for it, no
\* event is published for it, the brokerage is not called, and the step
\* leaves the open positions (and the controls) unchanged.
C2_DisabledAlertDropped ==
  [][\A a \in Alerts :
        /\ (publish_attr = "wrap_publish" /\ ~trading_enabled
              /\ pc[a] = "new" /\ pc'[a] # "new")
           => (pc'[a] = "dropped"
                 /\ UNCHANGED <<open_positions, controls, published, broker_calls,
                                decision, handle_alert_calls>>)
        /\ pc'[a] = "dropped"
           => (handle_alert_calls'[a] = 0 /\ decision'[a].reason = ""
                 /\ published'[a] = <<>> /\ broker_calls'[a] = 0)]_vars

C2_Witness ==
  \E a \in Alerts : pc[a] = "dropped" /\ ~trading_enabled

\* C3: on the plain bus with on_risk and on_order subscribed, once
\* max_consecutive_failures alerts in a row were accepted and failed at
\* submission (each with an error text, no rejection or success in between)
\* and their handlers have finished, trading_enabled is false.
C3_FailuresInARowTrip ==
  (publish_attr = "EventBus.publish" /\ running = 0
     /\ failed_in_a_row >= max_consecutive_failures)
     => ~trading_enabled

\* C4: every record_failure (the direct call, or on_order on a response with
\* a truthy error) adds one to consecutive_failures; if the new count reaches
\* max_consecutive_failures trading is disabled and the open positions are
\* emptied, otherwise trading_enabled and the open positions are unchanged.
RecordFailureStep ==
  \/ consecutive_failures' = consecutive_failures + 1
  \/ \E a \in Alerts :
        /\ pc[a] = "on_order" /\ pc'[a] # "on_order"
        /\ response[a].is_dict /\ Truthy(response[a].error)

C5_NeverRearmed ==
  [][~trading_enabled => ~trading_enabled']_vars

\* tripped, and the counter was reset afterwards
C5_Witness ==
  ~trading_enabled /\ consecutive_failures = 0

\* C6: for each alert handle_alert handles, at most one RiskEvent and one
\* OrderEvent are published; when it has finished exactly one RiskEvent was
\* published, and exactly one OrderEvent if the signal was accepted, none if
\* it was rejected; a rejected alert never calls the brokerage.
C6_EventsPerAlert ==
  \A a \in Alerts :
     LET risk_events == CountType(published[a], "RiskEvent")
         order_events == CountType(published[a], "OrderEvent")
     IN  /\ risk_events <= 1 /\ order_events <= 1
         /\ pc[a] = "done" =>
               /\ risk_events = 1
               /\ order_events = IF decision[a].accepted THEN 1 ELSE 0
         /\ ~decision[a].accepted => broker_calls[a] = 0 /\ order_events = 0

C6_Witness ==
  \E a, b \in Alerts :
     /\ pc[a] = "done" /\ decision[a].accepted
     /\ pc[b] = "done" /\ ~decision[b].accepted /\ decision[b].reason # ""

\* the steps handle_alert takes for alert a once its brokerage call raised
FailurePathStep(a) == raised'[a] /\ pc'[a] # pc[a]

FailurePathEvents(a) ==
  /\ pc'[a] # "raised"
  /\ pc'[a] = "done" =>
        /\ Len(published'[a]) = 2
        /\ published'[a][1].type = "RiskEvent" /\ published'[a][1].accepted
        /\ published'[a][2].type = "OrderEvent"
        /\ published'[a][2].response.is_dict
        /\ published'[a][2].response.error \in ExceptionMessages

\* C7 as stated: when the brokerage call raises, the exception does not
\* escape handle_alert, one OrderEvent with an error marker is published and
\* no step of the alert's handling changes the open positions.
C7_FailureLeavesPositions ==
  [][\A a \in Alerts :
        FailurePathStep(a) =>
           (FailurePathEvents(a) /\ open_positions' = open_positions)]_vars

\* C7 amended: as above, except that the on_order subscriber, run inside the
\* publish of the error OrderEvent, may empty the open positions by tripping
\* the circuit breaker; no step appends a position.
C7_FailureRegistersNothing ==
  [][\A a \in Alerts :
        FailurePathStep(a) =>
           /\ FailurePathEvents(a)
           /\ IF pc[a] = "on_order"
              THEN \/ open_positions' = open_positions
                   \/ open_positions' = <<>> /\ ~trading_enabled'
              ELSE open_positions' = open_positions]_vars

\* a failed alert has finished while another alert's position is open
C7_Witness ==
  \E a \in Alerts :
     /\ pc[a] = "done" /\ raised[a]
     /\ open_positions # <<>>

\* C8: in every interleaving of alerts the open-position count stays within
\* max_open_positions and the recorded risk stays below max_total_risk.
C8_LimitsHold ==
  /\ Len(open_positions) <= max_open_positions
  /\ SumRisk(open_positions) < max_total_risk

\* C9: when register_trade is called only directly after should_accept
\* accepted, the recorded risk never exceeds max_total_risk.
C9_TotalRiskBounded ==
  SumRisk(open_positions) <= max_total_risk

\* two positions with recorded risk were registered, the last one just now
C9_Witness ==
  /\ Len(open_positions) = 2
  /\ open_positions[1].risk > 0 /\ open_positions[2].risk > 0
  /\ last_accept = NoSignal

\* C10 as stated: every registered position records the notional risk of its
\* trade, never 0 for a trade with positive notional risk.
C10_ContributionIsNotional ==
  \A p \in Positions : p.risk = NotionalOf(p) /\ (NotionalOf(p) > 0 => p.risk # 0)

\* C10 amended: a registered trade has a notional risk that is not above
\* max_risk_per_trade; its position records the notional risk when that is
\* strictly below max_risk_per_trade and 0 otherwise (when it equals
\* max_risk_per_trade, or is not a number).
C10_ContributionRule ==
  \A p \in Positions :
     /\ ~Gt(NotionalOf(p), max_risk_per_trade)
     /\ p.risk = IF Lt(NotionalOf(p), max_risk_per_trade) THEN NotionalOf(p) ELSE 0

\* one position taken at exactly the per-trade limit, one strictly below it
C10_Witness ==
  \E p, q \in Positions :
     /\ NotionalOf(p) = max_risk_per_trade /\ p.risk = 0
     /\ NotionalOf(q) < max_risk_per_trade /\ q.risk = NotionalOf(q) /\ q.risk > 0

\* C11: whatever the open positions are, a direct should_accept call on a
\* signal whose stop_price is at or above its entry_price (the comparison
\* Python makes, so inf >= inf holds) returns accepted = false.
C11_StopNotBelowEntryRejected ==
  (last_call.op = "should_accept"
     /\ last_call.signal.stop_price >= last_call.signal.entry_price)
     => ~last_call.accepted

\* what each of the three checks says about signal sig in the current state
CountCheckFails == Len(open_positions) >= max_open_positions

PerTradeCheckFails(sig) ==
  Gt(calculate_trade_risk(sig, quantity), max_risk_per_trade)

TotalCheckFails(sig) ==
  Round2(SumRisk(open_positions))
     + risk_contribution(calculate_trade_risk(sig, quantity)) >= max_total_risk

\* C12: should_accept applies the open-position count check, then the
\* per-trade check, then the total-risk check; the first check that fails
\* decides the rejection and its reason, and the signal is accepted only if
\* none fails.
C12_ChecksInOrder ==
  last_call.op = "should_accept" =>
     LET sig == last_call.signal
     IN  IF CountCheckFails
         THEN ~last_call.accepted /\ last_call.reason = "Max open positions reached"
         ELSE IF PerTradeCheckFails(sig)
         THEN ~last_call.accepted /\ last_call.reason = "Trade risk exceeds per-trade max"
         ELSE IF TotalCheckFails(sig)
         THEN ~last_call.accepted
                 /\ last_call.reason = "Total risk after trade exceeds limit"
         ELSE last_call.accepted /\ last_call.reason = "Accepted"

\* a call on which both the count check and the per-trade check fail
C12_Witness ==
  /\ last_call.op = "should_accept"
  /\ CountCheckFails /\ PerTradeCheckFails(last_call.signal)
  /\ last_call.reason = "Max open positions reached"

IsPrefix(s, t) == Len(s) <= Len(t) /\ s = SubSeq(t, 1, Len(s))

Times(h, sq) == Cardinality({i \in DOMAIN sq : sq[i] = h})

\* C13: a publish call invokes the handlers subscribed for exactly the class
\* of its event (not for its base class or another class), one at a time in
\* registration order, once per subscription (a handler subscribed twice is
\* invoked twice); when the call has returned every one of them was invoked
\* and has finished or failed.
C13_PublishInvokesSubscribers ==
  \A p \in Publishes :
     LET pub == publishes[p]
     IN  /\ IsPrefix(pub.invoked, Expected(pub))
         /\ pub.finished \in {Len(pub.invoked), Len(pub.invoked) - 1}
         /\ pub.state = "returned" =>
               /\ pub.invoked = Expected(pub)
               /\ pub.finished = Len(pub.invoked)

\* a handler subscribed twice for AlertEvent was invoked twice by a publish
\* of an AlertEvent that has returned
C13_Witness ==
  \E p \in Publishes, h \in Handlers :
     /\ publishes[p].state = "returned"
     /\ publishes[p].event_type = "AlertEvent"
     /\ publishes[p].invoked = <<h, h>>
     /\ publishes[p].finished = 2

\* publish call p was awaiting a handler and that handler's call ends
HandlerEnds(p) == publishes'[p].finished = publishes[p].finished + 1

\* after the handler's end the loop went on: the next subscribed handler is
\* entered, or the call returns if there is none
LoopGoesOn(p) ==
  LET pub == publishes[p]
      k == Len(pub.invoked)
  IN  IF k < Len(Expected(pub))
      THEN /\ publishes'[p].state = "in_handler"
           /\ publishes'[p].invoked = Append(pub.invoked, Expected(pub)[k + 1])
      ELSE /\ publishes'[p].state = "returned"
           /\ publishes'[p].invoked = pub.invoked

\* a publish call made when nothing is subscribed for the event's class
\* returns at once, invokes nothing and changes nothing but its own record
EmptyPublish(p) ==
  (publishes[p].state = "idle" /\ publishes'[p].state # "idle"
     /\ Expected(publishes'[p]) = <<>>)
     => /\ publishes'[p].state = "returned" /\ publishes'[p].invoked = <<>>
        /\ publishes'[p].finished = 0
        /\ UNCHANGED <<subscribers, subscribe_log>>
        /\ \A q \in Publishes \ {p} : publishes'[q] = publishes[q]

\* C14 as stated: publish never raises to its caller; when a handler raises,
\* the remaining handlers are still invoked in order; a publish with no
\* subscribers invokes nothing and changes no state.
C14_PublishNeverRaises ==
  [][\A p \in Publishes :
        /\ publishes'[p].state # "raised"
        /\ (HandlerEnds(p) /\ last_outcome' # "returns") => LoopGoesOn(p)
        /\ EmptyPublish(p)]_vars

\* C14 amended: an exception of class Exception raised by a handler does not
\* reach the caller of publish, and the remaining handlers are still invoked
\* in order; publish raises to its caller only when a handler raises an
\* exception outside Exception (asyncio.CancelledError, KeyboardInterrupt,
\* SystemExit), and then no further handler is invoked; a publish with no
\* subscribers invokes nothing and changes no state.
C14_PublishIsolatesExceptions ==
  [][\A p \in Publishes :
        /\ (HandlerEnds(p) /\ last_outcome' = "Exception") => LoopGoesOn(p)
        /\ (HandlerEnds(p) /\ last_outcome' = "BaseException")
              => (publishes'[p].state = "raised"
                    /\ publishes'[p].invoked = publishes[p].invoked)
        /\ (publishes[p].state # "raised" /\ publishes'[p].state = "raised")
              => (HandlerEnds(p) /\ last_outcome' = "BaseException")
        /\ EmptyPublish(p)]_vars

\* a handler that is not the last one has just raised an Exception and the
\* next handler was entered, while an earlier publish with no subscribers
\* for its event has returned
C14_Witness ==
  \E p, q \in Publishes :
     /\ publishes[p].state = "in_handler"
     /\ last_outcome = "Exception"
     /\ Len(publishes[p].invoked) = publishes[p].finished + 1
     /\ publishes[q].state = "returned" /\ publishes[q].finished = 0

\* C15: a handler subscribed while a publish call is in flight is not
\* invoked by that call: the call invokes a handler at most as often as it
\* was subscribed for the event's class before the call was made, and
\* exactly that often once the call has returned, so the new subscription is
\* served by calls made after it and only by those.
C15_LateSubscriberNotInvoked ==
  \A p \in Publishes, h \in Handlers :
     LET pub == publishes[p]
     IN  /\ Times(h, pub.invoked) <= Times(h, Expected(pub))
         /\ pub.state = "returned" => Times(h, pub.invoked) = Times(h, Expected(pub))

\* h was subscribed for the event's class while the first publish was in
\* flight: that publish returned without invoking it, a publish made later
\* for the same class invoked it
C15_Witness ==
  \E p, q \in Publishes, h \in Handlers :
     /\ publishes[p].state = "returned" /\ publishes[q].state = "returned"
     /\ publishes[p].event_type = publishes[q].event_type
     /\ publishes[p].invoked # <<>>
     /\ Times(h, publishes[p].invoked) = 0
     /\ Times(h, publishes[q].invoked) = 1

\* C16: when on_order handles the OrderEvent of an alert, it calls
\* record_failure (the counter goes up by one) if the alert's brokerage call
\* raised, whatever the exception's message, and reset_failures (the counter
\* goes to 0) if the call returned, whatever the response mapping contains.
C16_OrderEventOutcome ==
  [][\A a \in Alerts :
        (pc[a] = "on_order" /\ pc'[a] = "done") =>
           IF raised[a]
           THEN consecutive_failures' = consecutive_failures + 1
           ELSE consecutive_failures' = 0]_vars

\* C17: starting from no open positions, after N register_trade calls with
\* no close_all in between there are exactly N open positions, and directly
\* after close_all there are none.
C17_CountIsRegistrations ==
  /\ Len(open_positions) = registered
  /\ last_call.op = "close_all" => Len(open_positions) = 0

\* two registrations in a row since the last close_all
C17_Witness ==
  /\ registered = 2 /\ Len(open_positions) = 2
  /\ last_call.op = "register_trade"

\* the date an expiry token writes: MM/DD of the current year, MM/DD/YY with
\* the two-digit year YY standing for 2000 + YY, or the ISO form YYYY-MM-DD
WrittenDate(tok, now) ==
  LET ps == tok.parts
  IN  IF tok.sep = "/" /\ Len(ps) = 2 THEN date(now.year, ps[1], ps[2])
      ELSE IF tok.sep = "/" /\ Len(ps) = 3
      THEN date(IF ps[3] < 100 THEN 2000 + ps[3] ELSE ps[3], ps[1], ps[2])
      ELSE IF tok.sep = "-" /\ Len(ps) = 3 THEN date(ps[1], ps[2], ps[3])
      ELSE date(0, 0, 0)

\* the written date one year later
YearLater(dt) == date(dt.year + 1, dt.month, dt.day)

\* the written date, or that date one year later, is a date after today
Placeable(tok, now) ==
  LET w == WrittenDate(tok, now)
  IN  /\ w.exc = ""
      /\ \/ ~DateLe(w, now)
         \/ YearLater(w).exc = "" /\ ~DateLe(YearLater(w), now)

Called == parsed.outcome # "not called"

\* C18: parse_discord_message on a text that does not match the grammar, or
\* whose fields fail validation, raises SignalParserError and no other kind
\* of exception, and returns no signal for such a text.
C18_OnlySignalParserError ==
  /\ parsed.outcome = "raised" => parsed.exc = "SignalParserError"
  /\ (Called /\ (~Matches(message) \/ ~Placeable(message.expiry, today)))
        => parsed.outcome = "raised"

\* C19: for a text that matches the grammar and whose expiry can be placed
\* in the future, parse_discord_message returns a signal with the ticker in
\* upper case, option_type Call for CALL/CALLS and Put for PUT/PUTS in any
\* letter case, strike 250, entry 1.29 and stop 1.00 as the text's price
\* tokens say, and an expiration with the month and day the text writes.
C19_FieldsOfMatchingText ==
  (Called /\ Matches(message) /\ Placeable(message.expiry, today)) =>
     /\ parsed.outcome = "returned"
     /\ parsed.signal.symbol \in { <<"A", "A", "P", "L">>, <<"M", "S", "F", "T">> }
     /\ Lower(parsed.signal.symbol) = Lower(message.symbol)
     /\ parsed.signal.option_type =
           IF Upper(message.otype)[1] = "C" THEN "Call" ELSE "Put"
     /\ parsed.signal.strike = 250000
     /\ parsed.signal.entry_price = 1290
     /\ parsed.signal.stop_price = 1000
     /\ parsed.signal.expiration_date.month = WrittenDate(message.expiry, today).month
     /\ parsed.signal.expiration_date.day = WrittenDate(message.expiry, today).day

\* C20: every signal parse_discord_message returns has an expiration date
\* strictly after today, with the month and day the text writes; a written
\* date on or before today is moved forward by exactly one year, a later one
\* is kept; and a text whose date, moved forward one year, is still not
\* after today gets no signal.
C20_ExpirationAfterToday ==
  LET w == WrittenDate(message.expiry, today)
      e == parsed.signal.expiration_date
  IN  /\ parsed.outcome = "returned" =>
            /\ ~DateLe(e, today)
            /\ w.exc = "" /\ e.month = w.month /\ e.day = w.day
            /\ e.year = IF DateLe(w, today) THEN w.year + 1 ELSE w.year
      /\ (Called /\ w.exc = "" /\ DateLe(w, today)
             /\ YearLater(w).exc = "" /\ DateLe(YearLater(w), today))
            => parsed.outcome = "raised"

\* a signal was returned for a text whose written date is today: it expires
\* on the same day of next year
C20_Witness ==
  /\ parsed.outcome = "returned"
  /\ WrittenDate(message.expiry, today).day = today.day
  /\ WrittenDate(message.expiry, today).month = today.month
  /\ WrittenDate(message.expiry, today).year = today.year
  /\ parsed.signal.expiration_date.year = today.year + 1

\* the message is one the alert source is to publish: not bot-authored, in
\* the configured channel, and accepted by the parser
Publishable ==
  /\ ~incoming.bot
  /\ incoming.channel_id = channel_id
  /\ parse_discord_message(message, today).outcome = "returned"

\* C21: on_message publishes an AlertEvent only for a message that is not
\* bot-authored, is in the configured channel and parses, and at most one
\* for it; for every other message it publishes nothing and ends without an
\* error
C21_OnlyPublishableMessagesPublish ==
  monitor.outcome # "not called" =>
    /\ monitor.alert_events <= 1
    /\ monitor.alert_events = 1 => Publishable
    /\ ~Publishable => (monitor.alert_events = 0 /\ monitor.outcome = "returned")

\* the Position should_accept's rule gives for alert a's signal and quantity
EvaluatedPosition(a) ==
  [symbol |-> signal[a].symbol,
   risk |-> risk_contribution(calculate_trade_risk(signal[a], quantity))]

\* C22: when the brokerage call returns, handle_alert goes on to register:
\* that step appends exactly one Position, whose risk is the risk
\* contribution should_accept computes for the same signal and quantity, and
\* the publish that follows delivers one OrderEvent carrying the response
\* the brokerage returned, unchanged.
C22_SuccessRegistersAndPublishes ==
  [][\A a \in Alerts :
        /\ (pc[a] = "in_executor" /\ pc'[a] # "in_executor" /\ ~raised'[a])
           => (pc'[a] = "register" /\ response'[a] \in BrokerResponses)
        /\ (pc[a] = "register" /\ pc'[a] # "register")
           => /\ open_positions' = Append(open_positions, EvaluatedPosition(a))
              /\ pc'[a] = "publish_order"
              /\ response'[a] = response[a]
        /\ (pc[a] = "publish_order" /\ pc'[a] # "publish_order")
           => /\ published'[a] =
                    Append(published[a],
                           [type |-> "OrderEvent", accepted |-> TRUE,
                            response |-> response[a]])
              /\ CountType(published'[a], "OrderEvent") = 1
              /\ response'[a] = response[a]]_vars

\* an alert whose order the brokerage took has finished: its position is
\* open with a risk above zero and its OrderEvent carries the response
C22_Witness ==
  \E a \in Alerts :
     /\ pc[a] = "done" /\ ~raised[a]
     /\ response[a] = [is_dict |-> TRUE, error |-> NoKey]
     /\ \E i \in DOMAIN open_positions :
           open_positions[i] = EvaluatedPosition(a) /\ open_positions[i].risk > 0
     /\ published[a][2].response = response[a]

\* C23: within the handling of one alert the brokerage is called only after
\* the RiskEvent was published and on_risk has finished; the OrderEvent
\* comes after the RiskEvent and after the brokerage call; and when the
\* call returned, on_order runs with the alert's position already the
\* newest open position.
C23_StepsInOrder ==
  \A a \in Alerts :
     /\ broker_calls[a] > 0 =>
           /\ CountType(published[a], "RiskEvent") = 1
           /\ published[a][1].type = "RiskEvent"
           /\ pc[a] \notin {"new", "should_accept", "publish_risk", "on_risk"}
     /\ CountType(published[a], "OrderEvent") > 0 =>
           /\ broker_calls[a] = 1
           /\ Len(published[a]) = 2 /\ published[a][2].type = "OrderEvent"
     /\ (pc[a] = "on_order" /\ ~raised[a]) =>
           /\ open_positions # <<>>
           /\ open_positions[Len(open_positions)] = EvaluatedPosition(a)

\* on_order runs for an alert whose call returned while another alert is
\* waiting for the brokerage
C23_Witness ==
  \E a, b \in Alerts :
     /\ pc[a] = "on_order" /\ ~raised[a]
     /\ pc[b] = "in_executor"

\* a direct call of the method op is the step being taken
DirectCall(op) == last_call' # last_call /\ last_call'.op = op

\* C24: reset_failures sets consecutive_failures to 0 and leaves
\* trading_enabled and the open positions unchanged; is_enabled changes no
\* field of the controls or of the risk manager and returns trading_enabled.
C24_ResetAndIsEnabledFrame ==
  [][/\ DirectCall("reset_failures")
          => (consecutive_failures' = 0
                /\ UNCHANGED <<trading_enabled, open_positions, config>>)
     /\ DirectCall("is_enabled")
          => (last_call'.returned = trading_enabled
                /\ UNCHANGED <<controls, open_positions, config>>)]_vars

\* reset_failures was called on tripped controls whose risk manager holds a
\* position
C24_Witness ==
  /\ last_call.op = "reset_failures"
  /\ ~trading_enabled
  /\ open_positions # <<>>
  /\ consecutive_failures = 0

\* C25: the open positions change only by register_trade, which appends one
\* Position and leaves the ones before it as they were, and by the bulk
\* clear (close_all, which record_failure calls when it trips), which
\* empties the list; should_accept, reset_failures and is_enabled leave the
\* list unchanged, so no single Position is removed and no recorded risk is
\* rewritten.
C25_PositionsChangeByRegisterOrClear ==
  [][/\ open_positions' # open_positions =>
          \/ /\ DirectCall("register_trade")
             /\ Len(open_positions') = Len(open_positions) + 1
             /\ IsPrefix(open_positions, open_positions')
          \/ /\ DirectCall("close_all")
             /\ open_positions' = <<>>
          \/ /\ last_call'.op = "record_failure"
             /\ consecutive_failures' >= max_consecutive_failures
             /\ open_positions' = <<>>
     /\ last_call'.op \in {"should_accept", "reset_failures", "is_enabled"}
          => open_positions' = open_positions
     /\ DirectCall("register_trade")
          => /\ Len(open_positions') = Len(open_positions) + 1
             /\ IsPrefix(open_positions, open_positions')]_vars

\* a second position was registered behind a first one
C25_Witness ==
  /\ last_call.op = "register_trade"
  /\ Len(open_positions) >= 2
  /\ open_positions[1].risk > 0

\* C27: whenever trading_enabled is true, consecutive_failures is below
\* max_consecutive_failures (which is at least 1), after any sequence of
\* record_failure and reset_failures calls.
C27_EnabledBelowThreshold ==
  (max_consecutive_failures >= 1 /\ trading_enabled)
     => consecutive_failures < max_consecutive_failures

\* record_failure was called below the threshold and trading is still on
C27_Witness ==
  /\ last_call.op = "record_failure"
  /\ trading_enabled
  /\ consecutive_failures = max_consecutive_failures - 1
  /\ consecutive_failures >= 1

\* C26: in the wired pipeline, with alerts in flight concurrently, whenever
\* trading_enabled is false the open-position list is empty: no position is
\* registered after the circuit breaker has tripped.
C26_TrippedMeansNoPositions ==
  ~trading_enabled => open_positions = <<>>

\* publish call p has ended: it returned or raised to its caller
Ended(p) == publishes[p].state \in {"returned", "raised"}

\* C28: a handler that publishes on the bus while an outer publish is in
\* flight never waits for the bus lock: the lock is free whenever a handler
\* runs, and the outer publish ends only after the inner one has ended.
C28_NestedPublishTakesLock ==
  \A p \in Publishes :
     /\ publishes[p].state = "in_handler" => ~lock
     /\ (publishes[p].parent # 0 /\ Ended(publishes[p].parent)) => Ended(p)

\* a publish made by a handler of an outer publish invoked a handler of its
\* own and returned, and the outer publish returned after it
C28_Witness ==
  \E p, q \in Publishes :
     /\ publishes[p].parent = q
     /\ publishes[p].state = "returned" /\ publishes[p].finished >= 1
     /\ publishes[q].state = "returned"

\* handle_alert has finished for alert a with its events published
Completed(a) ==
  /\ pc[a] = "done"
  /\ CountType(published[a], "RiskEvent") = 1
  /\ CountType(published[a], "OrderEvent") = IF decision[a].accepted THEN 1 ELSE 0

\* C29: every handle_alert invocation finishes, given that its brokerage
\* call returns or raises and the subscribers return; the brokerage is called
\* at most once for an alert, also when the call failed; and when the
\* invocation has finished its RiskEvent and, if the signal was accepted,
\* its OrderEvent have been published.
C29_HandleAlertFinishes ==
  /\ [](\A a \in Alerts : broker_calls[a] <= 1)
  /\ \A a \in Alerts : (pc[a] = "should_accept") ~> Completed(a)

\* an invocation whose brokerage call raised has finished, and the call was
\* made once
C29_Witness ==
  \E a \in Alerts :
     /\ Completed(a) /\ raised[a]
     /\ broker_calls[a] = 1

====
